---- MODULE Spec2Model ----
(***************************************************************************)
(* A model of the three utility scripts of the repository:                 *)
(*   deduplicate_ideas.py  - read the CSV files of a directory, group the  *)
(*                           idea names by similarity to a seed, merge     *)
(*                           each group into one aggregate record, write   *)
(*                           the records sorted by score;                  *)
(*   update_csv_files.py   - back the CSV files up, then overwrite them    *)
(*                           with the consolidated rows;                   *)
(*   link_manager.py       - refresh LINK.txt, keeping the descriptions    *)
(*                           already written in it.                        *)
(*                                                                         *)
(* Python strings whose characters the code inspects (idea names, file     *)
(* names, manifest lines) are sequences of Unicode code points.  Score     *)
(* fields and header names, which the code only parses or compares as a    *)
(* whole, are TLA+ strings.                                                *)
(***************************************************************************)
EXTENDS Integers, Sequences, FiniteSets, TLC

VARIABLES
    \* ---- deduplicate_ideas.py
    directory,      \* the directory: file name -> [readable, rows]
    listing,        \* os.listdir(directory): the file names, in the OS's order
    pc,             \* position in main(): read, collect, group, write, done, raised
    csv_files,      \* read_csv_files: the dict filled so far, in insertion order
    idea_groups,    \* consolidate_ideas: name -> instances, in insertion order
    i,              \* consolidate_ideas: index of the outer loop over idea_names
    processed,      \* consolidate_ideas: the set of names already assigned
    consolidated,   \* consolidate_ideas: canonical name -> aggregate, insertion order
    output_file,    \* write_consolidated_csv: the rows written
    \* ---- update_csv_files.py
    upc,            \* position in main(): backup, read, update, done, raised
    files,          \* the directory: file name -> [content, readable, writable]
    pending,        \* the names of the current os.listdir loop not yet visited
    backup_dir,     \* the backup directory: file name -> content
    consolidated_ideas, \* read_consolidated_ideas: the rows read
    updated,        \* the names update_csv_file was called on
    \* ---- link_manager.py
    tree,           \* the .html files of the working tree (relative paths)
    link_file       \* LINK.txt: a sequence of lines, or <<>> when absent

dedupVars == <<directory, listing, pc, csv_files, idea_groups, i, processed,
               consolidated, output_file>>
applyVars == <<upc, files, pending, backup_dir, consolidated_ideas, updated>>
linkVars  == <<tree, link_file>>
vars      == <<dedupVars, applyVars, linkVars>>

(***************************************************************************)
(* Strings as sequences of code points.                                    *)
(***************************************************************************)
Rocket == 128640                    \* U+1F680, the emoji of normalize_idea_name

\* str.strip() with no argument strips the characters str.isspace() accepts.
WhiteSpace ==
    {9, 10, 11, 12, 13, 28, 29, 30, 31, 32, 133, 160, 5760, 8232, 8233, 8239,
     8287, 12288} \cup (8192..8202)

RECURSIVE LStrip(_)
LStrip(s) ==
    IF s # <<>> /\ Head(s) \in WhiteSpace THEN LStrip(Tail(s)) ELSE s

RECURSIVE RStrip(_)
RStrip(s) ==
    IF s # <<>> /\ s[Len(s)] \in WhiteSpace
    THEN RStrip(SubSeq(s, 1, Len(s) - 1))
    ELSE s

Strip(s) == RStrip(LStrip(s))

\* str.lower() on the characters the model uses: A-Z map to a-z, every other
\* character of the model's alphabet (digits, punctuation, a-z, the emoji,
\* white space) is left as it is.
LowerChar(c) == IF c \in 65..90 THEN c + 32 ELSE c

Lower(s) == [k \in 1..Len(s) |-> LowerChar(s[k])]

\* name.replace(old, ''), for a one-character old.
RemoveChar(s, old) == SelectSeq(s, LAMBDA c : c # old)

\* Python's `a in b` for strings: a occurs in b as a contiguous run.  The
\* empty string occurs in every string.
IsSubstring(a, b) ==
    \E k \in 0..(Len(b) - Len(a)) : SubSeq(b, k + 1, k + Len(a)) = a

StartsWith(s, prefix) ==
    Len(prefix) <= Len(s) /\ SubSeq(s, 1, Len(prefix)) = prefix

EndsWith(s, suffix) ==
    Len(suffix) <= Len(s)
    /\ SubSeq(s, Len(s) - Len(suffix) + 1, Len(s)) = suffix

\* Python's < on strings: code point by code point, a proper prefix first.
RECURSIVE StrLess(_, _)
StrLess(a, b) ==
    IF b = <<>> THEN FALSE
    ELSE IF a = <<>> THEN TRUE
    ELSE IF Head(a) # Head(b) THEN Head(a) < Head(b)
    ELSE StrLess(Tail(a), Tail(b))

(***************************************************************************)
(* deduplicate_ideas.py: normalize_idea_name, are_ideas_similar.           *)
(***************************************************************************)
normalize_idea_name(name) == Lower(Strip(RemoveChar(name, Rocket)))

\* difflib.SequenceMatcher(None, a, b), no junk, strings shorter than the 200
\* characters at which the "popular element" heuristic starts.  Indices are
\* 1-based and the ranges alo..ahi, blo..bhi inclusive.
RECURSIVE CommonPrefix(_, _, _, _, _, _)
CommonPrefix(a, b, ia, jb, ahi, bhi) ==
    IF ia > ahi \/ jb > bhi THEN 0
    ELSE IF a[ia] # b[jb] THEN 0
    ELSE 1 + CommonPrefix(a, b, ia + 1, jb + 1, ahi, bhi)

\* The longest matching block of a[alo..ahi] and b[blo..bhi]: of the longest
\* blocks the one that starts earliest in a, and of those the one that starts
\* earliest in b.  <<alo, blo, 0>> when nothing matches.
find_longest_match(a, b, alo, ahi, blo, bhi) ==
    LET cand == (alo..ahi) \X (blo..bhi)
        size == [p \in cand |-> CommonPrefix(a, b, p[1], p[2], ahi, bhi)]
        best == IF cand = {} THEN 0
                ELSE CHOOSE k \in {size[p] : p \in cand} :
                         \A q \in cand : size[q] <= k
    IN  IF best = 0 THEN <<alo, blo, 0>>
        ELSE LET top == {p \in cand : size[p] = best}
                 p == CHOOSE x \in top :
                          \A y \in top :
                              x[1] < y[1] \/ (x[1] = y[1] /\ x[2] <= y[2])
             IN  <<p[1], p[2], best>>

\* get_matching_blocks, summed: the number of matched characters.
RECURSIVE MatchedChars(_, _, _, _, _, _)
MatchedChars(a, b, alo, ahi, blo, bhi) ==
    IF alo > ahi \/ blo > bhi THEN 0
    ELSE LET m == find_longest_match(a, b, alo, ahi, blo, bhi)
         IN  IF m[3] = 0 THEN 0
             ELSE m[3]
                  + MatchedChars(a, b, alo, m[1] - 1, blo, m[2] - 1)
                  + MatchedChars(a, b, m[1] + m[3], ahi, m[2] + m[3], bhi)

ThresholdNum == 85                  \* threshold=0.85, as the fraction 85/100
ThresholdDen == 100

\* SequenceMatcher(None, a, b).ratio() >= threshold, in exact arithmetic:
\* ratio() is 2.0 * matches / (len(a) + len(b)), and 1.0 for two empty strings.
RatioAtLeastThreshold(a, b) ==
    LET total == Len(a) + Len(b)
        matches == MatchedChars(a, b, 1, Len(a), 1, Len(b))
    IN  IF total = 0 THEN TRUE
        ELSE 2 * matches * ThresholdDen >= ThresholdNum * total

are_ideas_similar(name1, name2) ==
    LET norm1 == normalize_idea_name(name1)
        norm2 == normalize_idea_name(name2)
    IN  IF norm1 = norm2 THEN TRUE
        ELSE IF IsSubstring(norm1, norm2) \/ IsSubstring(norm2, norm1) THEN TRUE
        ELSE RatioAtLeastThreshold(norm1, norm2)

(***************************************************************************)
(* deduplicate_ideas.py: the data.  A row is one csv.DictReader dict, of   *)
(* which the model keeps the fields the grouping and the score use: Idea   *)
(* (a string of code points; <<>> when the field is empty or absent) and   *)
(* Score (the field's text; "" when empty or absent).  The free-text       *)
(* fields (value propositions, rationale, LLM_Source) are not modelled;   *)
(* of Why_This_Score the aggregate keeps the count of its first line,      *)
(* "<n> evals".                                                            *)
(***************************************************************************)
Dot == 46
CsvSuffix == <<Dot, 99, 115, 118>>                  \* ".csv"

\* float(s) on the score texts of the model: the decimal texts it reads, and
\* the values they denote.  Any other non-empty text raises ValueError.
FloatValue == ("6" :> 6) @@ ("8" :> 8) @@ ("9" :> 9)

\* row.get(field) is true: the field is present and not empty.
HasIdea(row) == row.Idea # <<>>
HasScore(row) == row.Score # ""

\* One entry of idea_groups[name]: {'filename': ..., 'row': ...}; line is the
\* row's position in its file, which tells equal rows apart.
Instance(filename, line, row) ==
    [filename |-> filename, line |-> line, row |-> row]

\* The rows of one file as instances, in file order.
FileInstances(f) ==
    [k \in 1..Len(f.rows) |-> Instance(f.filename, k, f.rows[k])]

\* The rows of all files of csv_data, in the order the two for loops of the
\* first pass visit them.
RECURSIVE AllRows(_)
AllRows(csv_data) ==
    IF csv_data = <<>> THEN <<>>
    ELSE FileInstances(Head(csv_data)) \o AllRows(Tail(csv_data))

\* Position of key in an insertion-ordered dict (a sequence of records with
\* a field name), 0 when absent.
IndexOf(dict, key) ==
    IF \E k \in 1..Len(dict) : dict[k].name = key
    THEN CHOOSE k \in 1..Len(dict) : dict[k].name = key
    ELSE 0

\* idea_groups[row['Idea']].append(inst) on a defaultdict(list).
AppendInstance(groups, inst) ==
    LET k == IndexOf(groups, inst.row.Idea)
    IN  IF k = 0
        THEN Append(groups, [name |-> inst.row.Idea, instances |-> <<inst>>])
        ELSE [groups EXCEPT ![k].instances = Append(@, inst)]

\* First pass: collect all ideas; rows without an Idea are passed over.
RECURSIVE CollectIdeas(_, _)
CollectIdeas(groups, insts) ==
    IF insts = <<>> THEN groups
    ELSE CollectIdeas(
             IF HasIdea(Head(insts).row)
             THEN AppendInstance(groups, Head(insts))
             ELSE groups,
             Tail(insts))

idea_names == [k \in 1..Len(idea_groups) |-> idea_groups[k].name]

\* A bug the code does not have: a later name joins the group when it is
\* similar to any name already in it, not only to the seed.
SimilarGroupTransitive(names, at, done) ==
    LET RECURSIVE Scan(_, _)
        Scan(group, k) ==
            IF k > Len(names) THEN group
            ELSE IF names[k] \notin done
                    /\ \E g \in 1..Len(group) :
                           are_ideas_similar(group[g], names[k])
                 THEN Scan(Append(group, names[k]), k + 1)
                 ELSE Scan(group, k + 1)
    IN  Scan(<<names[at]>>, at + 1)

\* The inner loop over idea_names[i+1:], seed idea1 = names[at]: every later
\* name not yet processed that is similar to the seed.  The names of a dict
\* are distinct, so adding idea2 to processed inside the loop does not change
\* the test of a later idea2.
SimilarGroup(names, at, done) ==
    <<names[at]>> \o
    SelectSeq(SubSeq(names, at + 1, Len(names)),
              LAMBDA idea2 : idea2 \notin done
                             /\ are_ideas_similar(names[at], idea2))

SeqToSet(s) == {s[k] : k \in 1..Len(s)}

\* key=lambda x: (len(normalize_idea_name(x)), x), compared as tuples.
KeyLess(x, y) ==
    LET lx == Len(normalize_idea_name(x))
        ly == Len(normalize_idea_name(y))
    IN  lx < ly \/ (lx = ly /\ StrLess(x, y))

\* A bug the code does not have: the key without its second component,
\* key=lambda x: len(normalize_idea_name(x)), so that min() returns the first
\* name of the group among the shortest.
CanonicalNameNoTieBreak(group) ==
    LET shortest(k) ==
            \A j \in 1..Len(group) :
                Len(normalize_idea_name(group[k]))
                    <= Len(normalize_idea_name(group[j]))
    IN  group[CHOOSE k \in 1..Len(group) :
                  shortest(k) /\ \A j \in 1..(k - 1) : ~shortest(j)]

\* min(similar_group, key=...): the names of a group are distinct, so the
\* minimum is unique.
CanonicalName(group) ==
    CHOOSE x \in SeqToSet(group) :
        \A y \in SeqToSet(group) : y = x \/ KeyLess(x, y)

\* all_instances: the instances of every name of the group, in group order.
RECURSIVE GroupInstances(_, _)
GroupInstances(groups, group) ==
    IF group = <<>> THEN <<>>
    ELSE groups[IndexOf(groups, Head(group))].instances
         \o GroupInstances(groups, Tail(group))

\* The rows the list comprehension of line 88 calls float() on.
Scored(insts) == SelectSeq(insts, LAMBDA inst : HasScore(inst.row))

\* float() raises ValueError on one of them.
ScoresRaise(insts) ==
    \E k \in 1..Len(insts) :
        HasScore(insts[k].row) /\ insts[k].row.Score \notin DOMAIN FloatValue

RECURSIVE SumScores(_)
SumScores(insts) ==
    IF insts = <<>> THEN 0
    ELSE FloatValue[Head(insts).row.Score] + SumScores(Tail(insts))

\* round(total / n, 1), in tenths.  total is a sum of whole numbers, so an
\* average half way between two tenths ends in .25 or .75, which a float holds
\* exactly, and round() then takes the even tenth.
RoundTenths(total, n) ==
    LET q == (10 * total) \div n
        r == (10 * total) % n
    IN  IF 2 * r < n THEN q
        ELSE IF 2 * r > n THEN q + 1
        ELSE IF q % 2 = 0 THEN q ELSE q + 1

\* 'Score': round(avg_score, 1) with avg_score = sum/len if scores else 0,
\* in tenths.
AverageScore(insts) ==
    LET scored == Scored(insts)
    IN  IF scored = <<>> THEN 0
        ELSE RoundTenths(SumScores(scored), Len(scored))

\* The aggregate of one group.  group and members are similar_group and
\* all_instances, the locals the record is computed from.
Aggregate(groups, group) ==
    LET insts == GroupInstances(groups, group)
    IN  [name |-> CanonicalName(group),
         Score |-> AverageScore(insts),
         evals |-> Len(Scored(insts)),
         group |-> group,
         members |-> insts]

\* dict[key] = value: a new key goes last, a known key keeps its place.
SetItem(dict, rec) ==
    LET k == IndexOf(dict, rec.name)
    IN  IF k = 0 THEN Append(dict, rec) ELSE [dict EXCEPT ![k] = rec]

\* A bug the code does not have: a sort that is not stable, an element going
\* before the elements of equal score.
InsertUnstable(sorted, rec) ==
    LET before == SelectSeq(sorted, LAMBDA r : r.Score > rec.Score)
        after == SelectSeq(sorted, LAMBDA r : r.Score <= rec.Score)
    IN  before \o <<rec>> \o after

\* sorted(values, key=lambda x: x['Score'], reverse=True): descending and
\* stable, so an element goes after every element whose score is not lower.
InsertByScore(sorted, rec) ==
    LET before == SelectSeq(sorted, LAMBDA r : r.Score >= rec.Score)
        after == SelectSeq(sorted, LAMBDA r : r.Score < rec.Score)
    IN  before \o <<rec>> \o after

RECURSIVE SortByScoreDesc(_, _)
SortByScoreDesc(sorted, rest) ==
    IF rest = <<>> THEN sorted
    ELSE SortByScoreDesc(InsertByScore(sorted, Head(rest)), Tail(rest))

\* The rows write_consolidated_csv writes: {'Number': i} updated with the
\* aggregate, for i, idea in enumerate(sorted_ideas, 1).
WrittenRows(ideas) ==
    LET sorted_ideas == SortByScoreDesc(<<>>, ideas)
    IN  [k \in 1..Len(sorted_ideas) |->
            [Number |-> k,
             Idea |-> sorted_ideas[k].name,
             Score |-> sorted_ideas[k].Score,
             evals |-> sorted_ideas[k].evals]]

(***************************************************************************)
(* deduplicate_ideas.py: the steps of main().                              *)
(***************************************************************************)
applyIdle ==
    /\ upc = "idle" /\ files = <<>> /\ pending = {} /\ backup_dir = <<>>
    /\ consolidated_ideas = <<>> /\ updated = {}

linkIdle == tree = {} /\ link_file = <<>>

\* read_csv_files, one iteration of the loop over os.listdir: a .csv file
\* that opens and parses.
ReadFile ==
    /\ pc = "read" /\ listing # <<>>
    /\ EndsWith(Head(listing), CsvSuffix)
    /\ directory[Head(listing)].readable
    /\ csv_files' = Append(csv_files,
                           [filename |-> Head(listing),
                            rows |-> directory[Head(listing)].rows])
    /\ listing' = Tail(listing)
    /\ UNCHANGED <<directory, pc, idea_groups, i, processed, consolidated,
                   output_file, applyVars, linkVars>>

\* An entry that is no .csv file is passed over.
SkipEntry ==
    /\ pc = "read" /\ listing # <<>>
    /\ ~EndsWith(Head(listing), CsvSuffix)
    /\ listing' = Tail(listing)
    /\ UNCHANGED <<directory, pc, csv_files, idea_groups, i, processed,
                   consolidated, output_file, applyVars, linkVars>>

\* open() or the csv reader raises: nothing catches it, main() ends.
ReadFileRaise ==
    /\ pc = "read" /\ listing # <<>>
    /\ EndsWith(Head(listing), CsvSuffix)
    /\ ~directory[Head(listing)].readable
    /\ pc' = "raised"
    /\ UNCHANGED <<directory, listing, csv_files, idea_groups, i, processed,
                   consolidated, output_file, applyVars, linkVars>>

\* read_csv_files returns csv_files.
ReadReturn ==
    /\ pc = "read" /\ listing = <<>>
    /\ pc' = "collect"
    /\ UNCHANGED <<directory, listing, csv_files, idea_groups, i, processed,
                   consolidated, output_file, applyVars, linkVars>>

\* consolidate_ideas, first pass.
Collect ==
    /\ pc = "collect"
    /\ idea_groups' = CollectIdeas(<<>>, AllRows(csv_files))
    /\ i' = 1
    /\ processed' = {}
    /\ consolidated' = <<>>
    /\ pc' = "group"
    /\ UNCHANGED <<directory, listing, csv_files, output_file, applyVars,
                   linkVars>>

\* Second pass, an iteration whose idea1 is already processed: continue.
SkipProcessed ==
    /\ pc = "group" /\ i <= Len(idea_names)
    /\ idea_names[i] \in processed
    /\ i' = i + 1
    /\ UNCHANGED <<directory, listing, pc, csv_files, idea_groups, processed,
                   consolidated, output_file, applyVars, linkVars>>

\* Second pass, an iteration that opens a group and merges it.
Consolidate ==
    /\ pc = "group" /\ i <= Len(idea_names)
    /\ idea_names[i] \notin processed
    /\ LET similar_group == SimilarGroup(idea_names, i, processed)
       IN  /\ ~ScoresRaise(GroupInstances(idea_groups, similar_group))
           /\ processed' = processed \cup SeqToSet(similar_group)
           /\ consolidated' =
                  SetItem(consolidated, Aggregate(idea_groups, similar_group))
    /\ i' = i + 1
    /\ UNCHANGED <<directory, listing, pc, csv_files, idea_groups,
                   output_file, applyVars, linkVars>>

\* The same iteration when a Score of the group is no decimal: float()
\* raises ValueError at line 88, nothing catches it.
ConsolidateRaise ==
    /\ pc = "group" /\ i <= Len(idea_names)
    /\ idea_names[i] \notin processed
    /\ LET similar_group == SimilarGroup(idea_names, i, processed)
       IN  /\ ScoresRaise(GroupInstances(idea_groups, similar_group))
           /\ processed' = processed \cup SeqToSet(similar_group)
    /\ pc' = "raised"
    /\ UNCHANGED <<directory, listing, csv_files, idea_groups, i,
                   consolidated, output_file, applyVars, linkVars>>

\* consolidate_ideas returns consolidated.
ConsolidateReturn ==
    /\ pc = "group" /\ i > Len(idea_names)
    /\ pc' = "write"
    /\ UNCHANGED <<directory, listing, csv_files, idea_groups, i, processed,
                   consolidated, output_file, applyVars, linkVars>>

\* write_consolidated_csv.
Write ==
    /\ pc = "write"
    /\ output_file' = WrittenRows(consolidated)
    /\ pc' = "done"
    /\ UNCHANGED <<directory, listing, csv_files, idea_groups, i, processed,
                   consolidated, applyVars, linkVars>>

(***************************************************************************)
(* deduplicate_ideas.py: inputs and specifications.                        *)
(***************************************************************************)
\* All the orders os.listdir may return the entries of a directory in.
Orders(S) ==
    {o \in [1..Cardinality(S) -> S] :
        \A j, k \in 1..Cardinality(S) : j # k => o[j] # o[k]}

\* Sequences over S of length at most n.
SeqUpTo(S, n) == UNION {[1..k -> S] : k \in 0..n}

SmartPlanner ==         \* "Smart Planner"
    <<83, 109, 97, 114, 116, 32, 80, 108, 97, 110, 110, 101, 114>>
SmartPlannerLower ==    \* "smart planner"
    <<115, 109, 97, 114, 116, 32, 112, 108, 97, 110, 110, 101, 114>>
BudgetTracker ==        \* "Budget Tracker"
    <<66, 117, 100, 103, 101, 116, 32, 84, 114, 97, 99, 107, 101, 114>>

FileA == <<97>> \o CsvSuffix                        \* "a.csv"
FileB == <<98>> \o CsvSuffix                        \* "b.csv"
FileC == <<99>> \o CsvSuffix                        \* "c.csv"
NotesTxt == <<110, Dot, 116, 120, 116>>             \* "n.txt"

\* The Score texts of the inputs: absent or empty, three decimals, and a text
\* float() rejects.
ScorePool == {"", "6", "8", "9", "n/a"}

dedupIdle ==
    /\ directory = <<>> /\ listing = <<>> /\ pc = "idle" /\ csv_files = <<>>
    /\ idea_groups = <<>> /\ i = 0 /\ processed = {} /\ consolidated = <<>>
    /\ output_file = <<>>

\* main() of deduplicate_ideas.py on the directory of the end-to-end
\* scenario: three source files with one idea each and a file that is no
\* CSV; every Score and every file's readability vary.
Init ==
    /\ \E sa, sb, sc \in ScorePool, ra, rb, rc \in BOOLEAN :
           directory =
               (FileA :> [readable |-> ra,
                          rows |-> <<[Idea |-> SmartPlanner, Score |-> sa]>>])
            @@ (FileB :> [readable |-> rb,
                          rows |-> <<[Idea |-> SmartPlannerLower, Score |-> sb]>>])
            @@ (FileC :> [readable |-> rc,
                          rows |-> <<[Idea |-> BudgetTracker, Score |-> sc]>>])
            @@ (NotesTxt :> [readable |-> TRUE, rows |-> <<>>])
    /\ listing \in Orders({FileA, FileB, FileC, NotesTxt})
    /\ pc = "read"
    /\ csv_files = <<>> /\ idea_groups = <<>> /\ i = 0 /\ processed = {}
    /\ consolidated = <<>> /\ output_file = <<>>
    /\ applyIdle /\ linkIdle

Next ==
    \/ ReadFile
    \/ SkipEntry
    \/ ReadFileRaise
    \/ ReadReturn
    \/ Collect
    \/ SkipProcessed
    \/ Consolidate
    \/ ConsolidateRaise
    \/ ConsolidateReturn
    \/ Write

Spec == Init /\ [][Next]_vars

\* consolidate_ideas(csv_data) on every small Source Collection: up to
\* MaxRows rows over short names, the first half of them in a.csv and the
\* rest in b.csv.
MaxRows == 3

Abcdefx == <<97, 98, 99, 100, 101, 102, 120>>       \* "abcdefx"
Abcdefy == <<97, 98, 99, 100, 101, 102, 121>>       \* "abcdefy"
Cdefy == <<99, 100, 101, 102, 121>>                 \* "cdefy"

\* Names: none; only the emoji; and three names of which the first two match
\* by ratio (12 of 14 characters), the last is contained in the second, and
\* the first and the last do not match (8 of 12 characters).
NamePool == {<<>>, <<Rocket>>, Abcdefx, Abcdefy, Cdefy}

RowPool == [Idea : NamePool, Score : {"", "6", "9", "n/a"}]

SourceCollection(rows) ==
    LET half == (Len(rows) + 1) \div 2
    IN  <<[filename |-> FileA, rows |-> SubSeq(rows, 1, half)],
          [filename |-> FileB, rows |-> SubSeq(rows, half + 1, Len(rows))]>>

InitConsolidate ==
    /\ directory = <<>> /\ listing = <<>>
    /\ pc = "collect"
    /\ \E rows \in SeqUpTo(RowPool, MaxRows) :
           csv_files = SourceCollection(rows)
    /\ idea_groups = <<>> /\ i = 0 /\ processed = {}
    /\ consolidated = <<>> /\ output_file = <<>>
    /\ applyIdle /\ linkIdle

NextConsolidate ==
    \/ Collect
    \/ SkipProcessed
    \/ Consolidate
    \/ ConsolidateRaise
    \/ ConsolidateReturn

SpecConsolidate == InitConsolidate /\ [][NextConsolidate]_vars

\* write_consolidated_csv(consolidated_ideas, output_file) on every dict of
\* up to MaxAggregates aggregates with distinct names and scores in tenths.
MaxAggregates == 3

AggregatePool ==
    {[name |-> n, Score |-> sc, evals |-> IF sc = 0 THEN 0 ELSE 1,
      group |-> <<n>>, members |-> <<>>] :
        n \in {Abcdefx, Cdefy, SmartPlanner, BudgetTracker},
        sc \in {0, 60, 75, 90}}

InitWrite ==
    /\ directory = <<>> /\ listing = <<>>
    /\ pc = "write"
    /\ csv_files = <<>> /\ idea_groups = <<>> /\ i = 0 /\ processed = {}
    /\ consolidated \in
           {c \in SeqUpTo(AggregatePool, MaxAggregates) :
               \A j, k \in 1..Len(c) : j # k => c[j].name # c[k].name}
    /\ output_file = <<>>
    /\ applyIdle /\ linkIdle

NextWrite == Write

SpecWrite == InitWrite /\ [][NextWrite]_vars

(***************************************************************************)
(* Claims about deduplicate_ideas.py.                                      *)
(***************************************************************************)
\* consolidate_ideas has ended: it returned (main() goes on to write) or an
\* exception left it.
ConsolidateEnded == pc \in {"write", "done"} \/ (pc = "raised" /\ i > 0)

\* The number of aggregates whose member list holds the instance.
MemberCount(inst) ==
    Cardinality({<<k, m>> \in (1..Len(consolidated))
                                  \X (1..Len(AllRows(csv_files))) :
                    /\ m <= Len(consolidated[k].members)
                    /\ consolidated[k].members[m] = inst})

RECURSIVE TotalMembers(_)
TotalMembers(aggs) ==
    IF aggs = <<>> THEN 0
    ELSE Len(Head(aggs).members) + TotalMembers(Tail(aggs))

\* C1: once consolidate_ideas has ended, every row of every source file is in
\* the member list of exactly one aggregate, and the number of input rows
\* equals the sum of the member counts.
C1_EveryRowInOneAggregate ==
    ConsolidateEnded =>
        /\ \A k \in 1..Len(AllRows(csv_files)) :
               MemberCount(AllRows(csv_files)[k]) = 1
        /\ Len(AllRows(csv_files)) = TotalMembers(consolidated)

\* What the code does keep of C1 (not a claim of its own): when
\* consolidate_ideas returns, the rows that have an Idea are partitioned by
\* the aggregates, and the rows without one are in none.
NamedRowsPartitioned ==
    pc = "write" =>
        LET rows == AllRows(csv_files)
            named == SelectSeq(rows, LAMBDA inst : HasIdea(inst.row))
        IN  /\ \A k \in 1..Len(rows) :
                   MemberCount(rows[k]) = IF HasIdea(rows[k].row) THEN 1 ELSE 0
            /\ Len(named) = TotalMembers(consolidated)

\* Names A, B, C observed in that order with A~B, B~C and not A~C.
NonTransitiveTriple ==
    /\ Len(idea_names) = 3
    /\ are_ideas_similar(idea_names[1], idea_names[2])
    /\ are_ideas_similar(idea_names[2], idea_names[3])
    /\ ~are_ideas_similar(idea_names[1], idea_names[3])

\* C3: for names A, B, C observed in that order where A matches B, B matches
\* C and A does not match C, consolidate_ideas returns two groups, {A, B}
\* and {C}: C is compared with the seed A only, never with the member B.
C3_SeedOnlyGrouping ==
    (pc = "write" /\ NonTransitiveTriple) =>
        /\ Len(consolidated) = 2
        /\ consolidated[1].group = <<idea_names[1], idea_names[2]>>
        /\ consolidated[2].group = <<idea_names[3]>>

C3_Witness == pc = "write" /\ NonTransitiveTriple

\* The mean of the scores of the members whose Score parses, rounded to one
\* decimal (in tenths); 0 when none parses.
MeanOfParsable(insts) ==
    LET ok == SelectSeq(insts, LAMBDA inst : inst.row.Score \in DOMAIN FloatValue)
    IN  IF ok = <<>> THEN 0 ELSE RoundTenths(SumScores(ok), Len(ok))

\* C5: a member row whose Score is absent, empty or no decimal is skipped and
\* does not abort the run: consolidate_ideas returns, and every aggregate's
\* Score is the mean of the parsable scores of its members, 0 when there is
\* none.
C5_UnparsableScoreSkipped ==
    ConsolidateEnded =>
        /\ pc # "raised"
        /\ \A k \in 1..Len(consolidated) :
               consolidated[k].Score = MeanOfParsable(consolidated[k].members)

\* C10: a name whose normalized form is empty does not match a name whose
\* normalized form is not, so a group whose seed normalizes to the empty
\* string holds only names that do.
C10_EmptySeedAbsorbsNothing ==
    \A k \in 1..Len(consolidated) :
        LET group == consolidated[k].group
        IN  normalize_idea_name(group[1]) = <<>> =>
                \A g \in 1..Len(group) : normalize_idea_name(group[g]) = <<>>

\* The .csv files of the directory that open and parse.
ReadableCsv ==
    {f \in DOMAIN directory : EndsWith(f, CsvSuffix) /\ directory[f].readable}

\* C4: a file that cannot be opened or parsed is excluded and the loader does
\* not abort: read_csv_files never raises, and the Source Collection it
\* returns holds exactly the readable .csv files of the directory.
C4_UnreadableFileSkipped ==
    /\ ~(pc = "raised" /\ i = 0)
    /\ pc = "collect" =>
           {csv_files[k].filename : k \in 1..Len(csv_files)} = ReadableCsv

\* Position of the aggregate of a written row in consolidated (the grouper's
\* discovery order).
Discovery(row) == IndexOf(consolidated, row.Idea)

\* C6: the writer emits one row per aggregate, sorted by Score descending,
\* rows of equal Score in discovery order, with Number 1..N in output order.
C6_SortedStableNumbered ==
    pc = "done" =>
        /\ Len(output_file) = Len(consolidated)
        /\ \A k \in 1..Len(output_file) :
               /\ output_file[k].Number = k
               /\ Discovery(output_file[k]) # 0
               /\ output_file[k].Score
                      = consolidated[Discovery(output_file[k])].Score
        /\ \A j, k \in 1..Len(output_file) :
               j < k =>
                   /\ output_file[j].Score >= output_file[k].Score
                   /\ output_file[j].Idea # output_file[k].Idea
                   /\ output_file[j].Score = output_file[k].Score
                          => Discovery(output_file[j]) < Discovery(output_file[k])

\* Three aggregates: the first two out of order, the third tied with the
\* first.
C6_Witness ==
    /\ pc = "done"
    /\ Len(consolidated) = 3
    /\ consolidated[1].Score < consolidated[2].Score
    /\ consolidated[3].Score = consolidated[1].Score

\* The end-to-end scenario: the three files read, with scores 6, 8 and 9.
Scenario ==
    /\ pc = "done"
    /\ directory[FileA].rows[1].Score = "6"
    /\ directory[FileB].rows[1].Score = "8"
    /\ directory[FileC].rows[1].Score = "9"

\* The output of the scenario with canonical as the name of the first
\* group: Budget Tracker (9.0, 1 eval) first, then canonical (7.0, 2 evals).
ScenarioOutput(canonical) ==
    output_file =
        <<[Number |-> 1, Idea |-> BudgetTracker, Score |-> 90, evals |-> 1],
          [Number |-> 2, Idea |-> canonical, Score |-> 70, evals |-> 2]>>

\* C7 as stated: the output of the scenario is "smart planner" (7.0, 2 evals)
\* and "Budget Tracker" (9.0, 1 eval), Budget Tracker first.
C7_AsStated == Scenario => ScenarioOutput(SmartPlannerLower)

\* C7 as amended: the same, with the aggregate named "Smart Planner", the
\* lexicographically smaller of the two names of equal normalized length.
C7_EndToEnd == Scenario => ScenarioOutput(SmartPlanner)

C7_Witness == Scenario /\ Len(consolidated) = 2

(***************************************************************************)
(* update_csv_files.py.  A file's content is a table: the header line and  *)
(* the data lines, each a sequence of field texts.                         *)
(***************************************************************************)
BackupPrefix == <<98, 97, 99, 107, 117, 112, 95>>   \* "backup_"

ConsolidatedCsv ==                                   \* "consolidated_ideas.csv"
    <<99, 111, 110, 115, 111, 108, 105, 100, 97, 116, 101, 100, 95,
      105, 100, 101, 97, 115>> \o CsvSuffix

BackupBCsv == BackupPrefix \o FileB                 \* "backup_b.csv"

\* backup_<YYYYMMDD_HHMMSS>, for one value of datetime.now().
BackupDirName ==                                     \* "backup_20240102_030405"
    BackupPrefix \o <<50, 48, 50, 52, 48, 49, 48, 50, 95, 48, 51, 48, 52,
                      48, 53>>

fieldnames ==
    <<"Number", "Idea", "Score", "Free_Value_Prop", "Paid_Value_Prop",
      "Why_This_Score", "LLM_Source">>

\* csv.DictReader: one dict per data line, keyed by the header.
DictRows(table) ==
    [k \in 1..Len(table.rows) |->
        [h \in SeqToSet(table.header) |->
            table.rows[k][CHOOSE c \in 1..Len(table.header) :
                              table.header[c] = h]]]

\* csv.DictWriter(f, fieldnames=fieldnames).writerow(row) raises ValueError
\* when the dict has a key that is no field name (extrasaction='raise').
WriteRaises(rows) ==
    \E k \in 1..Len(rows) : ~(DOMAIN rows[k] \subseteq SeqToSet(fieldnames))

\* The line writerow(row) writes: the fields in fieldnames order, '' for a
\* key the dict lacks.
WrittenLine(row) ==
    [c \in 1..Len(fieldnames) |->
        IF fieldnames[c] \in DOMAIN row THEN row[fieldnames[c]] ELSE ""]

\* The file update_csv_file leaves when no writerow raises.
WrittenTable(rows) ==
    [header |-> fieldnames,
     rows |-> [k \in 1..Len(rows) |-> WrittenLine(rows[k])]]

\* The file it leaves when writerow raises: rows of one DictReader share
\* their keys, so the first writerow raises, after the header was written.
HeaderOnly == [header |-> fieldnames, rows |-> <<>>]

\* Line 17: the entries backup_original_files copies.
ShouldBackup(filename) ==
    EndsWith(filename, CsvSuffix) /\ filename # ConsolidatedCsv

\* Line 62: the entries main() rewrites.
ShouldUpdate(filename) ==
    /\ EndsWith(filename, CsvSuffix)
    /\ filename # ConsolidatedCsv
    /\ ~StartsWith(filename, BackupPrefix)

linkUnchanged == UNCHANGED <<dedupVars, linkVars>>

\* backup_original_files: os.makedirs(backup_dir, exist_ok=True), then
\* os.listdir(directory), which already lists the new directory.
MakeBackupDir ==
    /\ upc = "start"
    /\ files' = files @@ (BackupDirName :>
                    [kind |-> "dir", content |-> <<>>, readable |-> TRUE,
                     writable |-> TRUE])
    /\ pending' = DOMAIN files'
    /\ upc' = "backup"
    /\ UNCHANGED <<backup_dir, consolidated_ideas, updated>>
    /\ linkUnchanged

\* One iteration of the backup loop: shutil.copy2(src, dst).
BackupFile(filename) ==
    /\ upc = "backup" /\ filename \in pending
    /\ ShouldBackup(filename)
    /\ files[filename].readable
    /\ backup_dir' = (filename :> files[filename].content) @@ backup_dir
    /\ pending' = pending \ {filename}
    /\ UNCHANGED <<upc, files, consolidated_ideas, updated>>
    /\ linkUnchanged

BackupSkip(filename) ==
    /\ upc = "backup" /\ filename \in pending
    /\ ~ShouldBackup(filename)
    /\ pending' = pending \ {filename}
    /\ UNCHANGED <<upc, files, backup_dir, consolidated_ideas, updated>>
    /\ linkUnchanged

\* A bug the backup loop does not have: the failed copy is passed over.
BackupRaiseSwallowed(filename) ==
    /\ upc = "backup" /\ filename \in pending
    /\ ShouldBackup(filename)
    /\ ~files[filename].readable
    /\ pending' = pending \ {filename}
    /\ UNCHANGED <<upc, files, backup_dir, consolidated_ideas, updated>>
    /\ linkUnchanged

\* shutil.copy2 raises (the source cannot be read): nothing catches it,
\* main() ends in step 1.
BackupRaise(filename) ==
    /\ upc = "backup" /\ filename \in pending
    /\ ShouldBackup(filename)
    /\ ~files[filename].readable
    /\ upc' = "backup_raised"
    /\ UNCHANGED <<files, pending, backup_dir, consolidated_ideas, updated>>
    /\ linkUnchanged

BackupReturn ==
    /\ upc = "backup" /\ pending = {}
    /\ upc' = "read"
    /\ UNCHANGED <<files, pending, backup_dir, consolidated_ideas, updated>>
    /\ linkUnchanged

\* Step 2, read_consolidated_ideas, then os.listdir for the loop of step 3.
ReadConsolidated ==
    /\ upc = "read"
    /\ ConsolidatedCsv \in DOMAIN files
    /\ consolidated_ideas' = DictRows(files[ConsolidatedCsv].content)
    /\ pending' = DOMAIN files
    /\ upc' = "update"
    /\ UNCHANGED <<files, backup_dir, updated>>
    /\ linkUnchanged

\* open() raises FileNotFoundError: main() ends in step 2.
ReadConsolidatedRaise ==
    /\ upc = "read"
    /\ ConsolidatedCsv \notin DOMAIN files
    /\ upc' = "read_raised"
    /\ UNCHANGED <<files, pending, backup_dir, consolidated_ideas, updated>>
    /\ linkUnchanged

\* Step 3, one iteration: update_csv_file(filepath, consolidated_ideas).
UpdateFile(filename) ==
    /\ upc = "update" /\ filename \in pending
    /\ ShouldUpdate(filename)
    /\ files[filename].writable
    /\ ~WriteRaises(consolidated_ideas)
    /\ files' = [files EXCEPT
                    ![filename].content = WrittenTable(consolidated_ideas)]
    /\ updated' = updated \cup {filename}
    /\ pending' = pending \ {filename}
    /\ UNCHANGED <<upc, backup_dir, consolidated_ideas>>
    /\ linkUnchanged

UpdateSkip(filename) ==
    /\ upc = "update" /\ filename \in pending
    /\ ~ShouldUpdate(filename)
    /\ pending' = pending \ {filename}
    /\ UNCHANGED <<upc, files, backup_dir, consolidated_ideas, updated>>
    /\ linkUnchanged

\* update_csv_file raises: open(filepath, 'w') on a file that cannot be
\* written leaves it as it was; a writerow that raises leaves the header.
UpdateRaise(filename) ==
    /\ upc = "update" /\ filename \in pending
    /\ ShouldUpdate(filename)
    /\ \/ /\ ~files[filename].writable
          /\ UNCHANGED files
       \/ /\ files[filename].writable
          /\ WriteRaises(consolidated_ideas)
          /\ files' = [files EXCEPT ![filename].content = HeaderOnly]
    /\ upc' = "update_raised"
    /\ UNCHANGED <<pending, backup_dir, consolidated_ideas, updated>>
    /\ linkUnchanged

UpdateReturn ==
    /\ upc = "update" /\ pending = {}
    /\ upc' = "done"
    /\ UNCHANGED <<files, pending, backup_dir, consolidated_ideas, updated>>
    /\ linkUnchanged

\* The content a source file has before the run: its own one-line table.
OrigContent(filename) ==
    [header |-> <<"Idea", "Score">>, rows |-> <<<<filename, "6">>>>]

\* The tables consolidated_ideas.csv may hold: no row; two rows; a column
\* short; a column that is no field name.
ConsolidatedPool ==
    {[header |-> fieldnames, rows |-> <<>>],
     [header |-> fieldnames,
      rows |-> <<<<"1", "x", "9.0", "f", "p", "1 evals", "s">>,
                 <<"2", "y", "7.0", "", "", "2 evals", "s">>>>],
     [header |-> <<"Idea", "Score">>, rows |-> <<<<"x", "9.0">>>>],
     [header |-> <<"Idea", "Notes">>, rows |-> <<<<"x", "n">>>>]}

\* How a source file may stand: readable and writable, unreadable, read-only.
Permissions ==
    {[readable |-> TRUE, writable |-> TRUE],
     [readable |-> FALSE, writable |-> TRUE],
     [readable |-> TRUE, writable |-> FALSE]}

SourceNames == {FileA, FileB, BackupBCsv, NotesTxt}

InitApply ==
    /\ upc = "start"
    /\ \E present \in SUBSET SourceNames :
       \E perm \in [present -> Permissions] :
       \E cons \in SUBSET ConsolidatedPool :
           /\ Cardinality(cons) <= 1
           /\ files =
                  [f \in present |->
                      [kind |-> "file", content |-> OrigContent(f),
                       readable |-> perm[f].readable,
                       writable |-> perm[f].writable]]
                  @@ [f \in {ConsolidatedCsv : t \in cons} |->
                      [kind |-> "file", content |-> CHOOSE t \in cons : TRUE,
                       readable |-> TRUE, writable |-> TRUE]]
    /\ pending = {} /\ backup_dir = <<>> /\ consolidated_ideas = <<>>
    /\ updated = {}
    /\ dedupIdle /\ linkIdle

NextApply ==
    \/ MakeBackupDir
    \/ \E filename \in pending : BackupFile(filename)
    \/ \E filename \in pending : BackupSkip(filename)
    \/ \E filename \in pending : BackupRaise(filename)
    \/ BackupReturn
    \/ ReadConsolidated
    \/ ReadConsolidatedRaise
    \/ \E filename \in pending : UpdateFile(filename)
    \/ \E filename \in pending : UpdateSkip(filename)
    \/ \E filename \in pending : UpdateRaise(filename)
    \/ UpdateReturn

SpecApply == InitApply /\ [][NextApply]_vars

(***************************************************************************)
(* Claims about update_csv_files.py.                                       *)
(***************************************************************************)
\* The original tabular files: the .csv files other than the consolidated
\* one (the files, not the backup directory).
Originals ==
    {f \in DOMAIN files : files[f].kind = "file" /\ ShouldBackup(f)}

\* The file no longer holds what it held before the run.
Overwritten(f) == files[f].content # OrigContent(f)

BackupsComplete ==
    \A f \in Originals :
        f \in DOMAIN backup_dir /\ backup_dir[f] = OrigContent(f)

\* C2: no source file is overwritten while some original file is not yet
\* copied into the backup directory, and when the backup step or the read of
\* the consolidated file fails, no source file is overwritten.
C2_BackupBeforeOverwrite ==
    /\ (\E f \in Originals : Overwritten(f)) => BackupsComplete
    /\ upc \in {"backup_raised", "read_raised"} =>
           \A f \in Originals : ~Overwritten(f)

\* Two original files, one already overwritten, the other still to come.
C2_Witness ==
    /\ upc = "update"
    /\ \E f, g \in Originals :
           Overwritten(f) /\ g \in pending /\ ShouldUpdate(g)

\* C9: after the utility completes, every original source file other than
\* the consolidated file holds exactly the rows of the consolidated file in
\* the fixed column order, the consolidated file and the backups are as they
\* were, and every file that was backed up is also rewritten.
C9_EveryOriginalRewritten ==
    upc = "done" =>
        /\ \A f \in Originals :
               files[f].content = WrittenTable(consolidated_ideas)
        /\ consolidated_ideas = DictRows(files[ConsolidatedCsv].content)
        /\ \A f \in DOMAIN backup_dir :
               backup_dir[f] = OrigContent(f) /\ f \in updated

\* What the code does keep of C9 (not a claim of its own): the files
\* rewritten are the originals whose name does not start with "backup_".
NonBackupOriginalsRewritten ==
    upc = "done" =>
        /\ \A f \in Originals :
               IF StartsWith(f, BackupPrefix)
               THEN ~Overwritten(f) /\ f \notin updated
               ELSE files[f].content = WrittenTable(consolidated_ideas)
        /\ consolidated_ideas = DictRows(files[ConsolidatedCsv].content)
        /\ \A f \in DOMAIN backup_dir : backup_dir[f] = OrigContent(f)

(***************************************************************************)
(* link_manager.py.  LINK.txt is the sequence of its lines; the owner and  *)
(* the repository that get_repo_info() reads from the git remote are "o"   *)
(* and "r".  The write of LINK.txt is taken to succeed.                    *)
(***************************************************************************)
Slash == 47
Percent == 37

Owner == <<111>>                                    \* "o"
Repo == <<114>>                                     \* "r"

HtmlSuffix == <<46, 104, 116, 109, 108>>               \* ".html"
XHtml == <<120>> \o HtmlSuffix                      \* "x.html"
DirXHtml == <<100, Slash>> \o XHtml                 \* "d/x.html"
ABHtml == <<97, 32, 98>> \o HtmlSuffix              \* "a b.html"

Home == <<72, 111, 109, 101>>                         \* "Home"
Docs == <<68, 111, 99, 115>>                        \* "Docs"

\* The characters urllib.parse.quote leaves alone: letters, digits, "_.-~"
\* and the safe "/".
QuoteSafe ==
    (48..57) \cup (65..90) \cup (97..122) \cup {95, 46, 45, 126, Slash}

HexDigit(n) == IF n < 10 THEN 48 + n ELSE 55 + n

\* The value of a hexadecimal digit, -1 for any other character.
HexValue(c) ==
    IF c \in 48..57 THEN c - 48
    ELSE IF c \in 65..70 THEN c - 55
    ELSE IF c \in 97..102 THEN c - 87
    ELSE 0 - 1

\* urllib.parse.quote(file_path), for paths of ASCII characters: every
\* character that is not safe becomes %XX.
RECURSIVE Quote(_)
Quote(s) ==
    IF s = <<>> THEN <<>>
    ELSE (IF Head(s) \in QuoteSafe THEN <<Head(s)>>
          ELSE <<Percent, HexDigit(Head(s) \div 16), HexDigit(Head(s) % 16)>>)
         \o Quote(Tail(s))

\* urllib.parse.unquote(url): %XX becomes the character of that byte (the
\* replacement character for a byte that is no ASCII), a % not followed by
\* two hexadecimal digits stays.
RECURSIVE Unquote(_)
Unquote(s) ==
    IF s = <<>> THEN <<>>
    ELSE IF Head(s) = Percent /\ Len(s) >= 3
            /\ HexValue(s[2]) >= 0 /\ HexValue(s[3]) >= 0
         THEN LET byte == 16 * HexValue(s[2]) + HexValue(s[3])
              IN  <<IF byte < 128 THEN byte ELSE 65533>>
                  \o Unquote(SubSeq(s, 4, Len(s)))
         ELSE <<Head(s)>> \o Unquote(Tail(s))

\* s.split('/')[-1]: what follows the last "/", all of s when it has none.
RECURSIVE LastSegment(_)
LastSegment(s) ==
    IF \E k \in 1..Len(s) : s[k] = Slash
    THEN LastSegment(SubSeq(s, (CHOOSE k \in 1..Len(s) : s[k] = Slash) + 1,
                            Len(s)))
    ELSE s

\* str(i) for i >= 0.
RECURSIVE Str(_)
Str(n) == IF n < 10 THEN <<48 + n>> ELSE Str(n \div 10) \o <<48 + (n % 10)>>

Http == <<104, 116, 116, 112>>
HttpsScheme == <<104, 116, 116, 112, 115, 58, 47, 47>>
GithubIo == <<46, 103, 105, 116, 104, 117, 98, 46, 105, 111, 47>>
Dash == <<32, 45, 32>>                              \* " - "

\* generate_github_pages_url(owner, repo, file_path).
generate_github_pages_url(owner, repo, file_path) ==
    HttpsScheme \o owner \o GithubIo \o repo \o <<Slash>> \o Quote(file_path)

\* The least k with sub at s[k..], 0 when sub does not occur in s.
Find(s, sub) ==
    IF IsSubstring(sub, s)
    THEN CHOOSE k \in 1..(Len(s) - Len(sub) + 1) :
             /\ SubSeq(s, k, k + Len(sub) - 1) = sub
             /\ \A j \in 1..(k - 1) : SubSeq(s, j, j + Len(sub) - 1) # sub
    ELSE 0

\* load_existing_descriptions: the dict after the lines, a later line for a
\* file name replacing an earlier one.
RECURSIVE LoadDescriptions(_, _)
LoadDescriptions(descriptions, lines) ==
    IF lines = <<>> THEN descriptions
    ELSE LET line == Strip(Head(lines))
             at == Find(line, Dash)
             url == Strip(SubSeq(line, 1, at - 1))
             description == Strip(SubSeq(line, at + Len(Dash), Len(line)))
             filename == LastSegment(Unquote(url))
         IN  LoadDescriptions(
                 IF at # 0 /\ StartsWith(line, Http) /\ Find(url, <<Slash>>) # 0
                 THEN (filename :> description) @@ descriptions
                 ELSE descriptions,
                 Tail(lines))

load_existing_descriptions(lines) == LoadDescriptions(<<>>, lines)

Placeholder(filename) ==
    <<91, 65, 100, 100, 32, 100, 101, 115, 99, 114, 105, 112, 116, 105,
    111, 110, 32, 102, 111, 114, 32>>
    \o filename \o <<93>>

\* The nine lines update_link_file writes before the entries.
HeaderLines ==
    <<<<35, 32, 71, 105, 116, 72, 117, 98, 32, 80, 97, 103, 101, 115, 32,
      76, 105, 110, 107, 115, 32, 102, 111, 114, 32, 72, 84, 77, 76, 32,
      70, 105, 108, 101, 115>>,
      [k \in 1..50 |-> 61],
      <<>>,
      <<82, 101, 112, 111, 115, 105, 116, 111, 114, 121, 58, 32>>
          \o Owner \o <<Slash>> \o Repo,
      <<66, 97, 115, 101, 32, 85, 82, 76, 58, 32>>
          \o HttpsScheme \o Owner \o GithubIo \o Repo \o <<Slash>>,
      <<>>,
      <<72, 84, 77, 76, 32, 70, 105, 108, 101, 115, 58>>,
      [k \in 1..50 |-> 45],
      <<>>>>

\* The three lines of entry number n.
EntryLines(n, html_file, description) ==
    <<Str(n) \o <<46, 32>> \o html_file,
      <<32, 32, 32>> \o generate_github_pages_url(Owner, Repo, html_file)
          \o Dash \o description,
      <<>>>>

\* existing_descriptions.get(filename, f"[Add description for {filename}]")
\* with filename = html_file.split('/')[-1].
DescriptionFor(existing, html_file) ==
    LET filename == LastSegment(html_file)
    IN  IF filename \in DOMAIN existing
        THEN existing[filename]
        ELSE Placeholder(filename)

RECURSIVE Entries(_, _, _)
Entries(existing, html_files, n) ==
    IF html_files = <<>> THEN <<>>
    ELSE EntryLines(n, Head(html_files),
                    DescriptionFor(existing, Head(html_files)))
         \o Entries(existing, Tail(html_files), n + 1)

\* The lines update_link_file writes, given the lines LINK.txt holds.
NewLinkFile(html_files, lines) ==
    HeaderLines \o Entries(load_existing_descriptions(lines), html_files, 1)

\* find_html_files: the paths, sorted.
RECURSIVE Sorted(_)
Sorted(S) ==
    IF S = {} THEN <<>>
    ELSE LET least == CHOOSE x \in S : \A y \in S : y = x \/ StrLess(x, y)
         IN  <<least>> \o Sorted(S \ {least})

\* main(): with no HTML file it returns 1 before update_link_file.
RunLinkManager ==
    /\ tree # {}
    /\ link_file' = NewLinkFile(Sorted(tree), link_file)
    /\ UNCHANGED <<tree, dedupVars, applyVars>>

\* The line of LINK.txt that holds the URL and the description of a path, 0
\* when LINK.txt has no entry for the path.
EntryLine(lines, html_file) ==
    IF \E k \in 1..(Len(lines) - 1), n \in 1..Len(lines) :
           lines[k] = Str(n) \o <<46, 32>> \o html_file
    THEN 1 + CHOOSE k \in 1..(Len(lines) - 1) :
                 \E n \in 1..Len(lines) :
                     lines[k] = Str(n) \o <<46, 32>> \o html_file
    ELSE 0

\* The description LINK.txt shows for a path that has an entry.
DescriptionOf(lines, html_file) ==
    LET line == lines[EntryLine(lines, html_file)]
    IN  SubSeq(line, Find(line, Dash) + Len(Dash), Len(line))

\* Between two runs the user writes a description in LINK.txt ("Please
\* review LINK.txt and update descriptions as needed").
WriteDescription(html_file, description) ==
    /\ EntryLine(link_file, html_file) # 0
    /\ link_file' =
           [link_file EXCEPT ![EntryLine(link_file, html_file)] =
               SubSeq(@, 1, Find(@, Dash) + Len(Dash) - 1) \o description]
    /\ UNCHANGED <<tree, dedupVars, applyVars>>

\* Between two runs an HTML file is added to or removed from the tree.
AddHtmlFile(html_file) ==
    /\ html_file \notin tree
    /\ tree' = tree \cup {html_file}
    /\ UNCHANGED <<link_file, dedupVars, applyVars>>

RemoveHtmlFile(html_file) ==
    /\ html_file \in tree
    /\ tree' = tree \ {html_file}
    /\ UNCHANGED <<link_file, dedupVars, applyVars>>

HtmlPool == {XHtml, DirXHtml, ABHtml}

DescriptionPool == {Home, Docs}

InitLink ==
    /\ tree \in SUBSET HtmlPool
    /\ link_file = <<>>
    /\ dedupIdle /\ applyIdle

NextLink ==
    \/ RunLinkManager
    \/ \E html_file \in HtmlPool, description \in DescriptionPool :
           WriteDescription(html_file, description)
    \/ \E html_file \in HtmlPool : AddHtmlFile(html_file)
    \/ \E html_file \in HtmlPool : RemoveHtmlFile(html_file)

SpecLink == InitLink /\ [][NextLink]_vars

\* C8: a run of the link manager keeps, for every HTML file of the tree that
\* has an entry in LINK.txt, the description written there, and gives the
\* placeholder to the files that have none, whatever the directories the
\* files are in.
C8_DescriptionsSurvive ==
    [][RunLinkManager =>
          \A html_file \in tree :
              /\ EntryLine(link_file', html_file) # 0
              /\ DescriptionOf(link_file', html_file) =
                     IF EntryLine(link_file, html_file) # 0
                     THEN DescriptionOf(link_file, html_file)
                     ELSE Placeholder(LastSegment(html_file))]_vars

\* What the code does keep of C8 (not a claim of its own): the same, for the
\* files whose name no other file with an entry or in the tree shares.
UniqueNameDescriptionsSurvive ==
    [][RunLinkManager =>
          \A html_file \in tree :
              (\A other \in HtmlPool :
                   LastSegment(other) = LastSegment(html_file)
                       => other = html_file)
              => /\ EntryLine(link_file', html_file) # 0
                 /\ DescriptionOf(link_file', html_file) =
                        IF EntryLine(link_file, html_file) # 0
                        THEN DescriptionOf(link_file, html_file)
                        ELSE Placeholder(LastSegment(html_file))]_vars

====
